---- MODULE Spec2Model ----
(***************************************************************************)
(* Model of map.py (homebox): ARP-based device discovery, a persisted      *)
(* list of favourite devices and the reconcile pass test_favourites.       *)
(*                                                                         *)
(* A device is <<ip, mac>>.  A favourite is <<name, <<ip, mac>>, last>>,   *)
(* the triple json stores under the key "fav_devices".                     *)
(***************************************************************************)
EXTENDS Integers, Sequences, FiniteSets, TLC

\* ------------------------------------------------------------------ bounds
MaxDevices == 2     \* longest snapshot find_all_devices returns
MaxFavs == 2        \* longest favourites list a pass or a save starts from
MaxGateways == 2    \* longest candidate list test_all_gateways is given

\* ------------------------------------------------------- program constants
_MAIN_LIST == "fav_devices"
_PREFERRED_GATEWAY == "192.168.178.1"
_BACKUP_GATEWAY == "192.168.0.1"
CONFLICT_SUFFIX == "_CONFLICT_OLDIP_NEWMAC"

\* ------------------------------------------------------------ input domains
IPs == {"ip1", "ip2"}
MACs == {"m1", "m2"}
Names == {"a"}
\* The names the management calls are tried with.
ManyNames == {"a", "b", "c"}
\* Two instants are enough to tell a refreshed lastSeen from a kept one.
Times == {1, 2}
Devices == IPs \X MACs

\* Python's None, as returned by match_ip_in_devices / match_mac_in_devices.
None == <<>>

RECURSIVE SeqsUpTo(_, _)
SeqsUpTo(S, n) ==
    IF n = 0 THEN {<<>>}
    ELSE LET shorter == SeqsUpTo(S, n - 1)
         IN  shorter \cup {Append(s, x) : s \in {t \in shorter : Len(t) = n - 1}, x \in S}

\* Every scan result of find_all_devices: any order, duplicates allowed.
Snapshots == SeqsUpTo(Devices, MaxDevices)

\* The answers srp can collect for a probe of one address: nobody, or one host.
Responses(ip) == {<<>>} \cup {<< <<ip, m>> >> : m \in MACs}

VARIABLES
    data,            \* the json document: a function from keys to values
    pc,              \* where the running call of test_favourites stands
    favourites,      \* test_favourites: the list being reconciled
    devices,         \* test_favourites: the snapshot
    now,             \* test_favourites: the pass's timestamp
    i,               \* test_favourites: 1-based position of the for loop
    mid,             \* test_favourites: the match state of favourites[i]
    online,          \* test_favourites: the report being built
    new_favourites,  \* test_favourites: the updated list being built
    result,          \* the last response send_ARP returned (line 203)
    ret,             \* the value the last finished operation returned
    classified,      \* history: what match_in_devices returned per favourite
    retries,         \* history: targeted probes issued per favourite
    answered,        \* history: targeted probes that have returned
    online0,         \* history: Len(online) when favourites[i] was classified
    new0,            \* history: Len(new_favourites) at that moment
    writes,          \* history: calls of save made by the running pass
    data0,           \* history: the document when the running pass began
    call,            \* history: the last management call (when it is noted)
    gateways,        \* test_all_gateways: the candidate list
    g,               \* test_all_gateways: 1-based position of the for loop
    gw_pc,           \* where the running call of test_all_gateways stands
    gw_ret,          \* what test_all_gateways returned
    probed,          \* history: <<position, address, response>> per probe
    main_pc,         \* where the __main__ block stands ("lib": not run)
    primary,         \* __main__: how the probe of line 307 ended
    status,          \* the exit status of the process, -1 while it runs
    run,             \* repeated pass: 0 none, 1 first pass, 2 second pass
    arp_fixed,       \* repeated pass: the fixed answer per probed address
    online1,         \* repeated pass: online of the first pass
    updated1,        \* repeated pass: the list the first pass left stored
    classified1,     \* repeated pass: classified of the first pass
    now1,            \* repeated pass: now of the first pass
    ret1             \* repeated pass: how the first pass ended

NoCall == [op |-> "none", name |-> "", ip |-> "", mac |-> "", t |-> 0,
           k |-> 0, again |-> FALSE, found |-> FALSE]

hist == <<classified, retries, answered, online0, new0, writes>>

gw == <<gateways, g, gw_pc, gw_ret, probed>>
cli == <<main_pc, primary, status>>
twice == <<run, arp_fixed, online1, updated1, classified1, now1, ret1>>
pass == <<pc, favourites, devices, now, i, mid, online, new_favourites,
          result, ret, hist, data0>>

vars == <<data, pass, call, gw, cli, twice>>

\* ------------------------------------------------------------------ matcher
RECURSIVE match_ip_in_devices(_, _)
match_ip_in_devices(ip, devs) ==
    IF devs = <<>> THEN None
    ELSE IF Head(devs)[1] = ip THEN Head(devs)
    ELSE match_ip_in_devices(ip, Tail(devs))

RECURSIVE match_mac_in_devices(_, _)
match_mac_in_devices(mac, devs) ==
    IF devs = <<>> THEN None
    ELSE IF Head(devs)[2] = mac THEN Head(devs)
    ELSE match_mac_in_devices(mac, Tail(devs))

\* The first loop of match_in_devices (lines 104-108).
RECURSIVE full_match(_, _, _)
full_match(ip, mac, devs) ==
    IF devs = <<>> THEN FALSE
    ELSE IF Head(devs)[1] = ip /\ Head(devs)[2] = mac THEN TRUE
    ELSE full_match(ip, mac, Tail(devs))

\* Variant: a search that stops at the first device holding the address.
match_in_devices_first_hit(ip, mac, devs) ==
    LET m_ip == match_ip_in_devices(ip, devs)
        m_mac == match_mac_in_devices(mac, devs)
    IN  IF m_ip # None /\ m_ip[2] = mac THEN 4
        ELSE IF m_ip # None /\ m_mac # None THEN 3
        ELSE IF m_ip # None THEN 2
        ELSE IF m_mac # None THEN 1
        ELSE 0

match_in_devices(ip, mac, devs) ==
    IF full_match(ip, mac, devs) THEN 4
    ELSE LET m_ip == match_ip_in_devices(ip, devs)
             m_mac == match_mac_in_devices(mac, devs)
         IN  IF m_ip # None /\ m_mac # None THEN 3
             ELSE IF m_ip # None THEN 2
             ELSE IF m_mac # None THEN 1
             ELSE 0

\* -------------------------------------------------------------------- store
\* save(key, value): read the document, set one key, write it back whole.
save(key, value, file) ==
    [k \in (DOMAIN file) \cup {key} |-> IF k = key THEN value ELSE file[k]]

\* load_favourites: the list under the key, [] when file or key is absent.
load_favourites(key, file) ==
    IF key \in DOMAIN file THEN file[key] ELSE <<>>

\* --------------------------------------------------------------- reconciler
Name(fav) == fav[1]
Ip(fav) == fav[2][1]
Mac(fav) == fav[2][2]
\* line 199: lastonline = fav[2] if len(fav) > 2 else 0
lastonline(fav) == IF Len(fav) > 2 THEN fav[3] ELSE 0

\* What one arm of the if/elif chain does: raise, or extend the two lists.
Raise == [raised |-> TRUE, online |-> <<>>, new |-> <<>>]
Extend(on, nf) == [raised |-> FALSE, online |-> on, new |-> nf]

\* lines 212-217: "if mid == 1"; None[1] is a TypeError.
arm_mid1(fav, devs, t) ==
    LET m_ip == match_ip_in_devices(Ip(fav), devs)
    IN  IF m_ip = None THEN Raise
        ELSE Extend(<<>>, <<fav>>)

\* lines 218-223: "elif mid == 2"; None[0] is a TypeError.
arm_mid2(fav, devs, t) ==
    LET m_mac == match_mac_in_devices(Mac(fav), devs)
    IN  IF m_mac = None THEN Raise
        ELSE LET newip == m_mac[1]
             IN  Extend(<< <<Name(fav), <<newip, Mac(fav)>>, lastonline(fav)>> >>,
                        << <<Name(fav), <<newip, Mac(fav)>>, t>> >>)

\* Variant: trust the address, file the moved hardware under the derived name.
arm_mid3_trust_ip(fav, devs, t) ==
    LET m_mac == match_mac_in_devices(Mac(fav), devs)
        m_ip == match_ip_in_devices(Ip(fav), devs)
    IN  IF m_mac = None \/ m_ip = None THEN Raise
        ELSE Extend(<< <<Name(fav), <<Ip(fav), m_ip[2]>>, lastonline(fav)>> >>,
                    << <<Name(fav), <<Ip(fav), m_ip[2]>>, t>>,
                       <<Name(fav) \o CONFLICT_SUFFIX, <<m_mac[1], Mac(fav)>>, t>> >>)

\* lines 224-232: "elif mid == 3", trust MAC over IP.
arm_mid3(fav, devs, t) ==
    LET m_mac == match_mac_in_devices(Mac(fav), devs)
        m_ip == match_ip_in_devices(Ip(fav), devs)
    IN  IF m_mac = None \/ m_ip = None THEN Raise
        ELSE LET newip == m_mac[1]
                 newmac == m_ip[2]
             IN  Extend(<< <<Name(fav), <<newip, Mac(fav)>>, lastonline(fav)>> >>,
                        << <<Name(fav), <<newip, Mac(fav)>>, t>>,
                           <<Name(fav) \o CONFLICT_SUFFIX, <<Ip(fav), newmac>>, t>> >>)

\* Variant: a favourite found online is reported and not written back.
arm_mid4_forget(fav, devs, t) ==
    Extend(<<fav>>, <<>>)

\* Variant: report the favourite online but keep its old lastSeen.
arm_mid4_keep_last(fav, devs, t) ==
    Extend(<<fav>>, <<fav>>)

\* lines 233-237: "elif mid == 4".
arm_mid4(fav, devs, t) ==
    Extend(<<fav>>, << <<Name(fav), <<Ip(fav), Mac(fav)>>, t>> >>)

\* lines 212-239: the chain; mid == 0 reaches no arm.
arms(m, fav, devs, t) ==
    IF m = 1 THEN arm_mid1(fav, devs, t)
    ELSE IF m = 2 THEN arm_mid2(fav, devs, t)
    ELSE IF m = 3 THEN arm_mid3(fav, devs, t)
    ELSE IF m = 4 THEN arm_mid4(fav, devs, t)
    ELSE Extend(<<>>, <<>>)

\* Variant: retry whenever the address itself was not seen.
needs_retry_loose(m) == m <= 1

\* line 202: the states that trigger the targeted retry probe.
needs_retry(m) == m = 0

\* Each conflict makes a longer name: a pass starts only from names that
\* carry at most one suffix, which keeps the set of names finite.
StartNames == Names \cup {n \o CONFLICT_SUFFIX : n \in Names}
BoundedName(n) == n \in StartNames
BoundedList(favs) ==
    /\ Len(favs) <= MaxFavs
    /\ \A k \in 1..Len(favs) : BoundedName(Name(favs[k]))

Idle ==
    /\ pc = "idle"

Locals0 ==
    /\ favourites = <<>>
    /\ devices = <<>>
    /\ now = 0
    /\ i = 0
    /\ mid = 0
    /\ online = <<>>
    /\ new_favourites = <<>>
    /\ result = <<>>
    /\ classified = <<>>
    /\ retries = <<>>
    /\ answered = 0
    /\ online0 = 0
    /\ new0 = 0
    /\ writes = 0

\* Nothing of the gateway check, the __main__ block or a repeated pass yet.
Others0 ==
    /\ gateways = <<>>
    /\ g = 0
    /\ gw_pc = "idle"
    /\ gw_ret = "None"
    /\ probed = <<>>
    /\ primary = "unset"
    /\ status = -1
    /\ run = 0
    /\ arp_fixed = [a \in IPs |-> "unset"]
    /\ online1 = <<>>
    /\ updated1 = <<>>
    /\ classified1 = <<>>
    /\ now1 = 0
    /\ ret1 = "none"

\* lines 180-193: load the favourites, scan the range, start the loop.
test_favourites_begin ==
    /\ Idle
    /\ BoundedList(load_favourites(_MAIN_LIST, data))
    /\ \E devs \in Snapshots, t \in Times :
        /\ favourites' = load_favourites(_MAIN_LIST, data)
        /\ devices' = devs
        /\ now' = t
    /\ i' = 1
    /\ online' = <<>>
    /\ new_favourites' = <<>>
    /\ pc' = "for"
    /\ ret' = "none"
    /\ data0' = data
    /\ UNCHANGED <<data, mid, result, hist>>

\* lines 194-203: classify favourites[i]; on state 0 call send_ARP.
test_favourites_match ==
    /\ pc = "for"
    /\ i <= Len(favourites)
    /\ LET fav == favourites[i]
           m == match_in_devices(Ip(fav), Mac(fav), devices)
       IN  /\ mid' = m
           /\ classified' = Append(classified, m)
           /\ retries' = Append(retries, IF needs_retry(m) THEN 1 ELSE 0)
           /\ pc' = IF needs_retry(m) THEN "send_ARP" ELSE "chain"
    /\ online0' = Len(online)
    /\ new0' = Len(new_favourites)
    /\ UNCHANGED <<data, favourites, devices, now, i, online, new_favourites,
                   result, ret, answered, writes, data0>>

\* Variant: silence drops the favourite (no append at line 211).
test_favourites_retry_drop ==
    /\ pc = "send_ARP"
    /\ \E r \in Responses(Ip(favourites[i])) :
        /\ result' = r
        /\ mid' = IF r # <<>> THEN 4 ELSE mid
    /\ pc' = "chain"
    /\ answered' = answered + 1
    /\ UNCHANGED <<data, favourites, devices, now, i, online, new_favourites,
                   ret, classified, retries, online0, new0, writes, data0>>

\* Variant: the favourite counts as found whether or not the probe answers.
test_favourites_retry_always_found ==
    /\ pc = "send_ARP"
    /\ \E r \in Responses(Ip(favourites[i])) :
        result' = r
    /\ mid' = 4
    /\ pc' = "chain"
    /\ answered' = answered + 1
    /\ UNCHANGED <<data, favourites, devices, now, i, online, new_favourites,
                   ret, classified, retries, online0, new0, writes, data0>>

\* lines 203-211: the probe answers; a response turns state 0 into 4,
\* silence carries the favourite over unchanged.
test_favourites_retry ==
    /\ pc = "send_ARP"
    /\ \E r \in Responses(Ip(favourites[i])) :
        /\ result' = r
        /\ IF r # <<>>
           THEN /\ mid' = 4
                /\ UNCHANGED new_favourites
           ELSE /\ new_favourites' = Append(new_favourites, favourites[i])
                /\ UNCHANGED mid
    /\ pc' = "chain"
    /\ answered' = answered + 1
    /\ UNCHANGED <<data, favourites, devices, now, i, online, ret,
                   classified, retries, online0, new0, writes, data0>>

\* Variant: the list is saved after every favourite, not once at the end.
test_favourites_chain_save_each ==
    /\ pc = "chain"
    /\ LET out == arms(mid, favourites[i], devices, now)
       IN  IF out.raised
           THEN /\ pc' = "raised"
                /\ ret' = "raised"
                /\ UNCHANGED <<i, online, new_favourites, data, writes>>
           ELSE /\ online' = online \o out.online
                /\ new_favourites' = new_favourites \o out.new
                /\ data' = save(_MAIN_LIST, new_favourites \o out.new, data)
                /\ writes' = writes + 1
                /\ i' = i + 1
                /\ pc' = "for"
                /\ UNCHANGED ret
    /\ UNCHANGED <<favourites, devices, now, mid, result,
                   classified, retries, answered, online0, new0, data0>>

\* lines 212-239: the if/elif chain on mid, then the next favourite.
test_favourites_chain ==
    /\ pc = "chain"
    /\ LET out == arms(mid, favourites[i], devices, now)
       IN  IF out.raised
           THEN /\ pc' = "raised"
                /\ ret' = "raised"
                /\ UNCHANGED <<i, online, new_favourites>>
           ELSE /\ online' = online \o out.online
                /\ new_favourites' = new_favourites \o out.new
                /\ i' = i + 1
                /\ pc' = "for"
                /\ UNCHANGED ret
    /\ UNCHANGED <<data, favourites, devices, now, mid, result, hist, data0>>

\* lines 241-242: the loop is over; save the new list and return online.
test_favourites_save ==
    /\ pc = "for"
    /\ i > Len(favourites)
    /\ data' = save(_MAIN_LIST, new_favourites, data)
    /\ writes' = writes + 1
    /\ pc' = "returned"
    /\ ret' = "online"
    /\ UNCHANGED <<favourites, devices, now, i, mid, online, new_favourites,
                   result, classified, retries, answered, online0, new0, data0>>

\* The call is over (returned, or left by the exception): its locals die.
test_favourites_end ==
    /\ pc \in {"returned", "raised"}
    /\ pc' = "idle"
    /\ favourites' = <<>>
    /\ devices' = <<>>
    /\ now' = 0
    /\ i' = 0
    /\ mid' = 0
    /\ online' = <<>>
    /\ new_favourites' = <<>>
    /\ result' = <<>>
    /\ classified' = <<>>
    /\ retries' = <<>>
    /\ answered' = 0
    /\ online0' = 0
    /\ new0' = 0
    /\ writes' = 0
    /\ data0' = data
    /\ UNCHANGED <<data, ret>>

\* ------------------------------------------------------ favourite management
\* Variant: only the first record with the name is removed.
RECURSIVE Without_first_only(_, _)
Without_first_only(favs, name) ==
    IF favs = <<>> THEN <<>>
    ELSE IF Name(Head(favs)) = name THEN Tail(favs)
    ELSE <<Head(favs)>> \o Without_first_only(Tail(favs), name)

Without(favs, name) == SelectSeq(favs, LAMBDA f : Name(f) # name)

\* lines 248-259: the hardware address, when the caller gave none.
\* "raised" stands for the IndexError / TypeError of subscripting.
\* line 254: mac = send_ARP(ip)[0][1].hwsrc
mac_from_arp(arp) ==
    IF arp = <<>> THEN "raised" ELSE arp[1][2]

\* line 256: mac = match_ip_in_devices(ip, devices)[1]
mac_from_devices(ip, devs) ==
    IF match_ip_in_devices(ip, devs) = None THEN "raised"
    ELSE match_ip_in_devices(ip, devs)[2]

\* lines 257-273, with the hardware address settled (or the exception out).
save_favourite_with(name, ip, mac, t) ==
    LET favs == load_favourites(_MAIN_LIST, data)
    IN  /\ IF mac = "raised"
           THEN /\ ret' = "raised"
                /\ UNCHANGED data
           ELSE IF mac = "None"
           THEN /\ ret' = "False"
                /\ UNCHANGED data
           ELSE /\ data' = save(_MAIN_LIST,
                                Append(Without(favs, name), <<name, <<ip, mac>>, t>>),
                                data)
                /\ ret' = "True"
        /\ UNCHANGED <<pc, favourites, devices, now, i, mid, online,
                       new_favourites, result, hist>>

\* History of a management call: its arguments (mac is "None" when the caller
\* gave none), the number k of records named name it found, whether it repeats
\* a delete of that name that found some, and whether the address could be
\* resolved to a hardware address.  Kept only where note is TRUE.
Noted(note, op, name, ip, mac, t, found) ==
    IF note
    THEN /\ call' = [op |-> op, name |-> name, ip |-> ip, mac |-> mac, t |-> t,
                     k |-> Cardinality(
                             {j \in 1..Len(load_favourites(_MAIN_LIST, data)) :
                                load_favourites(_MAIN_LIST, data)[j][1] = name}),
                     again |-> call.op = "delete" /\ call.name = name /\ call.k > 0,
                     found |-> found]
         /\ data0' = data
    ELSE /\ call' = call
         /\ data0' = data'

\* lines 244-273: the caller gives mac, or devices, or neither.
save_favourite_in(N, note) ==
    /\ Idle
    /\ Len(load_favourites(_MAIN_LIST, data)) <= MaxFavs
    /\ \E name \in N, ip \in IPs, t \in Times :
        \/ \E mac \in MACs :
              /\ save_favourite_with(name, ip, mac, t)
              /\ Noted(note, "save", name, ip, mac, t, TRUE)
        \/ \E devs \in Snapshots :
              /\ save_favourite_with(name, ip, mac_from_devices(ip, devs), t)
              /\ Noted(note, "save", name, ip, "None", t,
                       \E j \in 1..Len(devs) : devs[j][1] = ip)
        \/ \E arp \in Responses(ip) :
              /\ save_favourite_with(name, ip, mac_from_arp(arp), t)
              /\ Noted(note, "save", name, ip, "None", t, arp # <<>>)

save_favourite == save_favourite_in(Names, FALSE)

\* lines 275-286
delete_favourite_in(N, note) ==
    /\ Idle
    /\ \E name \in N \cup {Name(f) : f \in
                 {load_favourites(_MAIN_LIST, data)[k] :
                    k \in 1..Len(load_favourites(_MAIN_LIST, data))}} :
        LET favs == load_favourites(_MAIN_LIST, data)
        IN  /\ IF favs = <<>>
               THEN /\ ret' = "False"
                    /\ UNCHANGED data
               ELSE /\ data' = save(_MAIN_LIST, Without(favs, name), data)
                    /\ ret' = "True"
            /\ Noted(note, "delete", name, "", "", 0, TRUE)
    /\ UNCHANGED <<pc, favourites, devices, now, i, mid, online, new_favourites,
                   result, hist>>

delete_favourite == delete_favourite_in(Names, FALSE)

\* ------------------------------------------------------------ specification
\* No file yet: load() finds nothing and every key is absent.
Init ==
    /\ data = <<>>
    /\ pc = "idle"
    /\ ret = "none"
    /\ data0 = <<>>
    /\ call = NoCall
    /\ Locals0
    /\ Others0
    /\ main_pc = "lib"

\* What belongs to the other scenarios stays as it is.
rest == <<call, gw, cli, twice>>

Next ==
    \/ test_favourites_begin /\ UNCHANGED rest
    \/ test_favourites_match /\ UNCHANGED rest
    \/ test_favourites_retry /\ UNCHANGED rest
    \/ test_favourites_chain /\ UNCHANGED rest
    \/ test_favourites_save /\ UNCHANGED rest
    \/ test_favourites_end /\ UNCHANGED rest
    \/ save_favourite /\ UNCHANGED <<gw, cli, twice>>
    \/ delete_favourite /\ UNCHANGED <<gw, cli, twice>>

Spec == Init /\ [][Next]_vars

\* ------------------------------------------- management calls on any document
\* The documents a management call may find: no file, or any list of records,
\* names repeated or not (earlier passes and hand edits both produce those).
StoredRecords == {<<n, d, 1>> : n \in ManyNames, d \in Devices}
InitManage ==
    /\ data \in {<<>>} \cup
                {[key \in {_MAIN_LIST} |-> l] : l \in SeqsUpTo(StoredRecords, MaxFavs)}
    /\ pc = "idle"
    /\ ret = "none"
    /\ data0 = data
    /\ call = NoCall
    /\ Locals0
    /\ Others0
    /\ main_pc = "lib"

\* One call on the document, and after a delete any further delete.
manage_save ==
    /\ call.op = "none"
    /\ save_favourite_in(ManyNames, TRUE)
    /\ UNCHANGED <<gw, cli, twice>>

manage_delete ==
    /\ call.op \in {"none", "delete"}
    /\ delete_favourite_in(ManyNames, TRUE)
    /\ UNCHANGED <<gw, cli, twice>>

NextManage ==
    \/ manage_save
    \/ manage_delete

SpecManage == InitManage /\ [][NextManage]_vars

\* ------------------------------------------------------------- gateway check
Gateways == {_PREFERRED_GATEWAY, _BACKUP_GATEWAY}

\* lines 21-37 on a gateway: silence, or one answer from that address.
GatewayResponses(ip) == {<<>>} \cup {<< <<ip, m>> >> : m \in MACs}

\* lines 54-56: the call binds its candidate list and enters the loop.
test_all_gateways_with(list) ==
    /\ gw_pc = "idle"
    /\ gateways' = list
    /\ g' = 1
    /\ gw_pc' = "for"
    /\ UNCHANGED <<gw_ret, probed>>

\* Variant: a responding candidate is remembered and the loop goes on.
test_gateway_keep_going ==
    /\ gw_pc = "for"
    /\ g <= Len(gateways)
    /\ \E r \in GatewayResponses(gateways[g]) :
        /\ probed' = Append(probed, <<g, gateways[g], r>>)
        /\ gw_ret' = IF r # <<>> THEN gateways[g] ELSE gw_ret
    /\ g' = g + 1
    /\ UNCHANGED <<gateways, gw_pc>>

\* lines 56-59 with 39-52: probe candidate g; the first answer returns it.
test_gateway ==
    /\ gw_pc = "for"
    /\ g <= Len(gateways)
    /\ \E r \in GatewayResponses(gateways[g]) :
        /\ probed' = Append(probed, <<g, gateways[g], r>>)
        /\ IF r # <<>>
           THEN /\ gw_ret' = gateways[g]
                /\ gw_pc' = "returned"
                /\ UNCHANGED g
           ELSE /\ g' = g + 1
                /\ UNCHANGED <<gw_ret, gw_pc>>
    /\ UNCHANGED gateways

\* line 60: the loop is over and nothing answered.
test_all_gateways_none ==
    /\ gw_pc = "for"
    /\ g > Len(gateways)
    /\ gw_pc' = "returned"
    /\ UNCHANGED <<gateways, g, gw_ret, probed>>

\* A caller of the library passes any candidate list.
test_all_gateways ==
    /\ main_pc = "lib"
    /\ \E list \in SeqsUpTo(Gateways, MaxGateways) :
        test_all_gateways_with(list)

\* ------------------------------------------------------------------ __main__
\* line 307: the probe of the preferred gateway.
main_test_gateway ==
    /\ main_pc = "start"
    /\ \E r \in GatewayResponses(_PREFERRED_GATEWAY) :
        /\ primary' = IF r # <<>> THEN "up" ELSE "down"
        /\ main_pc' = IF r # <<>> THEN "test_favourites" ELSE "test_all_gateways"
    /\ UNCHANGED status

\* line 308: the fallback call, on its default list (line 54).
main_test_all_gateways ==
    /\ main_pc = "test_all_gateways"
    /\ test_all_gateways_with(<<_PREFERRED_GATEWAY, _BACKUP_GATEWAY>>)
    /\ main_pc' = "exit"
    /\ UNCHANGED <<primary, status>>

\* lines 308-313: a returned gateway is truthy and exits 1, None exits 2.
main_exit_gateway ==
    /\ main_pc = "exit"
    /\ gw_pc = "returned"
    /\ status' = IF gw_ret # "None" THEN 1 ELSE 2
    /\ main_pc' = "exited"
    /\ UNCHANGED primary

\* line 315: the reconcile pass starts.
main_test_favourites ==
    /\ main_pc = "test_favourites"
    /\ test_favourites_begin
    /\ main_pc' = "print"
    /\ UNCHANGED <<primary, status>>

\* lines 316-320: the pass returned and the script ends with status 0;
\* an exception that left the pass ends the interpreter with status 1.
main_exit ==
    /\ main_pc = "print"
    /\ pc \in {"returned", "raised"}
    /\ status' = IF pc = "raised" THEN 1 ELSE 0
    /\ main_pc' = "exited"
    /\ UNCHANGED primary

\* Any stored document; the library caller or the script.
InitCLI ==
    /\ data \in {<<>>} \cup
           {[key \in {_MAIN_LIST} |-> l] :
               l \in SeqsUpTo({<<n, d, 1>> : n \in Names, d \in Devices}, MaxFavs)}
    /\ pc = "idle"
    /\ ret = "none"
    /\ data0 = data
    /\ call = NoCall
    /\ Locals0
    /\ Others0
    /\ main_pc \in {"lib", "start"}

NextCLI ==
    \/ test_all_gateways /\ UNCHANGED <<data, pass, call, cli, twice>>
    \/ test_gateway /\ UNCHANGED <<data, pass, call, cli, twice>>
    \/ test_all_gateways_none /\ UNCHANGED <<data, pass, call, cli, twice>>
    \/ main_test_gateway /\ UNCHANGED <<data, pass, call, gw, twice>>
    \/ main_test_all_gateways /\ UNCHANGED <<data, pass, call, twice>>
    \/ main_exit_gateway /\ UNCHANGED <<data, pass, call, gw, twice>>
    \/ main_test_favourites /\ UNCHANGED <<call, gw, twice>>
    \/ test_favourites_match /\ UNCHANGED rest
    \/ test_favourites_retry /\ UNCHANGED rest
    \/ test_favourites_chain /\ UNCHANGED rest
    \/ test_favourites_save /\ UNCHANGED rest
    \/ main_exit /\ UNCHANGED <<data, pass, call, gw, twice>>

SpecCLI == InitCLI /\ [][NextCLI]_vars

\* ------------------------------------------- two passes in immediate succession
\* What a retry probe of an address answered, as the outcome kept for it.
Outcome(r) == IF r = <<>> THEN "silent" ELSE r[1][2]

\* The first pass of the two.
first_test_favourites ==
    /\ run = 0
    /\ test_favourites_begin
    /\ run' = 1
    /\ UNCHANGED <<arp_fixed, online1, updated1, classified1, now1, ret1>>

\* lines 203-211 in a network that answers an address the same way every
\* time: the first probe of an address fixes its outcome.
test_favourites_retry_fixed ==
    /\ test_favourites_retry
    /\ LET a == Ip(favourites[i])
       IN  /\ arp_fixed[a] \in {"unset", Outcome(result')}
           /\ arp_fixed' = [arp_fixed EXCEPT ![a] = Outcome(result')]
    /\ UNCHANGED <<run, online1, updated1, classified1, now1, ret1>>

\* lines 180-193 again: the first pass is over (it returned, or the
\* exception ended it), the second one starts on the document the first
\* left and on the same scan result, at any time.
second_test_favourites ==
    /\ run = 1
    /\ pc \in {"returned", "raised"}
    /\ run' = 2
    /\ online1' = online
    /\ updated1' = load_favourites(_MAIN_LIST, data)
    /\ classified1' = classified
    /\ now1' = now
    /\ ret1' = ret
    /\ favourites' = load_favourites(_MAIN_LIST, data)
    /\ i' = 1
    /\ online' = <<>>
    /\ new_favourites' = <<>>
    /\ pc' = "for"
    /\ ret' = "none"
    /\ data0' = data
    /\ mid' = 0
    /\ result' = <<>>
    /\ classified' = <<>>
    /\ retries' = <<>>
    /\ answered' = 0
    /\ online0' = 0
    /\ new0' = 0
    /\ writes' = 0
    /\ \E t \in Times : now' = t
    /\ UNCHANGED <<data, devices, arp_fixed>>

InitTwice ==
    /\ data \in {<<>>} \cup
           {[key \in {_MAIN_LIST} |-> l] :
               l \in SeqsUpTo({<<n, d, 1>> : n \in Names, d \in Devices}, MaxFavs)}
    /\ pc = "idle"
    /\ ret = "none"
    /\ data0 = data
    /\ call = NoCall
    /\ Locals0
    /\ Others0
    /\ main_pc = "lib"

NextTwice ==
    \/ first_test_favourites /\ UNCHANGED <<call, gw, cli>>
    \/ test_favourites_match /\ UNCHANGED rest
    \/ test_favourites_retry_fixed /\ UNCHANGED <<call, gw, cli>>
    \/ test_favourites_chain /\ UNCHANGED rest
    \/ test_favourites_save /\ UNCHANGED rest
    \/ second_test_favourites /\ UNCHANGED <<call, gw, cli>>

SpecTwice == InitTwice /\ [][NextTwice]_vars

\* ================================================================ properties
\* The five match states, as the docstring of match_in_devices numbers them.
NONE == 0
IP_MOVED == 1
MAC_MOVED == 2
CONFLICT == 3
EXACT == 4

\* The classification stated over the snapshot as a set of observations.
Seen(devs) == {devs[k] : k \in 1..Len(devs)}
SeenPair(ip, mac, devs) == <<ip, mac>> \in Seen(devs)
SeenIp(ip, devs) == \E d \in Seen(devs) : d[1] = ip
SeenMac(mac, devs) == \E d \in Seen(devs) : d[2] = mac

Reference(ip, mac, devs) ==
    IF SeenPair(ip, mac, devs) THEN EXACT
    ELSE IF SeenIp(ip, devs) /\ SeenMac(mac, devs) THEN CONFLICT
    ELSE IF SeenIp(ip, devs) THEN MAC_MOVED
    ELSE IF SeenMac(mac, devs) THEN IP_MOVED
    ELSE NONE

StateOf(fav) == Reference(Ip(fav), Mac(fav), devices)

Least(S) == CHOOSE k \in S : \A j \in S : k <= j
\* The address of the first snapshot device carrying mac.
AddressOfMac(mac, devs) ==
    devs[Least({k \in 1..Len(devs) : devs[k][2] = mac})][1]
\* The hardware address of the first snapshot device at ip.
MacAtAddress(ip, devs) ==
    devs[Least({k \in 1..Len(devs) : devs[k][1] = ip})][2]

\* The pass has finished with a favourite: it went on to the next one, or it
\* returned, or the exception left the call while handling it.
Handled ==
    \/ pc \in {"for", "returned"} /\ i > 1
    \/ pc = "raised"
Cur == IF pc = "raised" THEN i ELSE i - 1
CurFav == favourites[Cur]
\* What the handling of that favourite added to the two lists.
OnlinePart == SubSeq(online, online0 + 1, Len(online))
NewPart == SubSeq(new_favourites, new0 + 1, Len(new_favourites))

Count(favs, name) == Cardinality({k \in 1..Len(favs) : Name(favs[k]) = name})

\* C1: a favourite whose hardware address is seen at another address while its
\* own address is not seen (IP_MOVED) adds (name, newAddress, mac, original
\* lastSeen) to online and (name, newAddress, mac, now) to updated, newAddress
\* being the address of the first snapshot device with that hardware address.
C1_IpMovedRelocates ==
    (Handled /\ StateOf(CurFav) = IP_MOVED) =>
        LET newAddress == AddressOfMac(Mac(CurFav), devices)
        IN  /\ OnlinePart =
                 << <<Name(CurFav), <<newAddress, Mac(CurFav)>>, lastonline(CurFav)>> >>
            /\ NewPart = << <<Name(CurFav), <<newAddress, Mac(CurFav)>>, now>> >>

\* C2: a favourite whose address is held by other hardware while its own
\* hardware address is seen nowhere (MAC_MOVED) adds nothing to online and is
\* carried unchanged into updated.
C2_MacMovedCarried ==
    (Handled /\ StateOf(CurFav) = MAC_MOVED) =>
        /\ OnlinePart = <<>>
        /\ NewPart = <<CurFav>>

\* C3: reconciliation never aborts partway: no favourite, snapshot or probe
\* outcome makes test_favourites leave before the final save.
C3_NeverAborts ==
    pc # "raised"

\* C4: a favourite classified CONFLICT adds (name, newAddress, mac, original
\* lastSeen) to online and two records to updated: (name, newAddress, mac, now)
\* followed by (name + "_CONFLICT_OLDIP_NEWMAC", original address, hardware
\* address observed at the original address, now).
C4_ConflictTrustsMac ==
    (Handled /\ StateOf(CurFav) = CONFLICT) =>
        LET newAddress == AddressOfMac(Mac(CurFav), devices)
            squatter == MacAtAddress(Ip(CurFav), devices)
        IN  /\ pc # "raised"
            /\ OnlinePart =
                 << <<Name(CurFav), <<newAddress, Mac(CurFav)>>, lastonline(CurFav)>> >>
            /\ NewPart =
                 << <<Name(CurFav), <<newAddress, Mac(CurFav)>>, now>>,
                    <<Name(CurFav) \o CONFLICT_SUFFIX, <<Ip(CurFav), squatter>>, now>> >>

C4_Witness ==
    /\ Handled
    /\ StateOf(CurFav) = CONFLICT
    /\ now # lastonline(CurFav)
    /\ Len(NewPart) = 2

\* C5: whenever a pass classifies a favourite named name as CONFLICT, the
\* updated list it writes holds exactly one record named name and exactly one
\* named name + "_CONFLICT_OLDIP_NEWMAC".
C5_ConflictSplitOnce ==
    pc = "returned" =>
        \A k \in 1..Len(favourites) :
            StateOf(favourites[k]) = CONFLICT =>
                /\ Count(new_favourites, Name(favourites[k])) = 1
                /\ Count(new_favourites, Name(favourites[k]) \o CONFLICT_SUFFIX) = 1

\* C6: match_in_devices returns, for every favourite and snapshot, exactly the
\* state of the reference classification: EXACT iff some device has both
\* addresses, else CONFLICT iff both are seen, else MAC_MOVED iff the address
\* is seen, else IP_MOVED iff the hardware address is seen, else NONE.
C6_MatchIsReference ==
    /\ Len(classified) <= Len(favourites)
    /\ \A k \in 1..Len(classified) :
        /\ classified[k] \in {NONE, IP_MOVED, MAC_MOVED, CONFLICT, EXACT}
        /\ classified[k] = StateOf(favourites[k])

\* An exact match that comes after a device with the same address and other
\* hardware.
C6_Witness ==
    /\ Len(classified) >= 1
    /\ classified[1] = EXACT
    /\ Len(devices) = 2
    /\ devices[1][1] = Ip(favourites[1])
    /\ devices[1][2] # Mac(favourites[1])

\* C7: a pass writes the store at most once, only after every favourite is
\* classified and every retry probe has returned; until then the document is
\* the one the pass began with, and the write replaces the whole list by
\* updated.
InPass == pc \in {"for", "send_ARP", "chain", "raised", "returned"}
retries_total == Cardinality({k \in 1..Len(retries) : retries[k] = 1})
C7_SingleFinalWrite ==
    InPass =>
        /\ writes <= 1
        /\ writes = 0 => data = data0
        /\ pc # "returned" => writes = 0
        /\ writes = 1 =>
            /\ pc = "returned"
            /\ Len(classified) = Len(favourites)
            /\ answered = retries_total
            /\ DOMAIN data = (DOMAIN data0) \cup {_MAIN_LIST}
            /\ data[_MAIN_LIST] = new_favourites

C7_Witness ==
    /\ pc = "returned"
    /\ writes = 1
    /\ Len(favourites) = 2
    /\ data # data0

\* C8: a favourite classified NONE whose retry probe gets no response adds
\* nothing to online and exactly one record to updated: itself, with the same
\* address, hardware address and lastSeen.
C8_NoMatchPreserved ==
    (Handled /\ StateOf(CurFav) = NONE /\ result = <<>>) =>
        /\ pc # "raised"
        /\ OnlinePart = <<>>
        /\ NewPart = <<CurFav>>

C8_Witness ==
    /\ Handled
    /\ StateOf(CurFav) = NONE
    /\ result = <<>>
    /\ devices # <<>>
    /\ now # lastonline(CurFav)
    /\ NewPart = <<CurFav>>

\* C9: a favourite that is EXACT, or NONE with a retry probe that responds, is
\* added to online as the original record and to updated exactly once as
\* (name, address, hardware address, now).
C9_ExactRefreshed ==
    (Handled /\ (\/ StateOf(CurFav) = EXACT
                 \/ StateOf(CurFav) = NONE /\ result # <<>>)) =>
        /\ pc # "raised"
        /\ OnlinePart = <<CurFav>>
        /\ NewPart = << <<Name(CurFav), <<Ip(CurFav), Mac(CurFav)>>, now>> >>

\* The recovery path: not in the snapshot, but the probe answered.
C9_Witness ==
    /\ Handled
    /\ StateOf(CurFav) = NONE
    /\ result # <<>>
    /\ now # lastonline(CurFav)
    /\ OnlinePart = <<CurFav>>

\* C10: the targeted retry probe is sent exactly once for each favourite
\* classified NONE and never for one in another state, and it has returned
\* before the next favourite is classified.
C10_RetryOnlyOnNone ==
    /\ Len(retries) = Len(classified)
    /\ \A k \in 1..Len(retries) :
        retries[k] = (IF StateOf(favourites[k]) = NONE THEN 1 ELSE 0)
    /\ answered = (IF pc = "send_ARP" THEN retries_total - 1 ELSE retries_total)

C10_Witness ==
    /\ pc = "returned"
    /\ retries = <<1, 0>>
    /\ answered = 1

\* C17: a completed pass loses no favourite: updated holds, in input order,
\* one record with the name and the hardware address of each favourite, plus
\* one derived record right after each favourite classified CONFLICT and
\* nothing else; so the document a pass writes is never shorter than the one
\* it read.
IsConflict(k) == StateOf(favourites[k]) = CONFLICT
PlaceOf(k) == k + Cardinality({j \in 1..(k - 1) : IsConflict(j)})
C17_NoFavouriteLost ==
    pc = "returned" =>
        /\ Len(new_favourites) =
             Len(favourites) + Cardinality({k \in 1..Len(favourites) : IsConflict(k)})
        /\ \A k \in 1..Len(favourites) :
            /\ Name(new_favourites[PlaceOf(k)]) = Name(favourites[k])
            /\ Mac(new_favourites[PlaceOf(k)]) = Mac(favourites[k])
            /\ IsConflict(k) =>
                 Name(new_favourites[PlaceOf(k) + 1]) =
                     Name(favourites[k]) \o CONFLICT_SUFFIX
        /\ Len(load_favourites(_MAIN_LIST, data)) >=
             Len(load_favourites(_MAIN_LIST, data0))

\* A conflict first, then a favourite that stayed silent.
C17_Witness ==
    /\ pc = "returned"
    /\ Len(favourites) = 2
    /\ IsConflict(1)
    /\ Len(new_favourites) = 3
    /\ new_favourites[3] = favourites[2]

\* C18: every record reported online carries an (address, hardware address)
\* pair the prober returned during the pass: in the snapshot, or in the
\* response to the favourite's own retry probe.
PairOf(fav) == fav[2]
Records(favs) == {favs[k] : k \in 1..Len(favs)}
C18_OnlineWasObserved ==
    Handled =>
        \A r \in Records(OnlinePart) :
            \/ PairOf(r) \in Seen(devices)
            \/ StateOf(CurFav) = NONE /\ PairOf(r) \in Seen(result)

\* C18 as amended: every record reported online carries a pair of the
\* snapshot, or is a favourite classified NONE whose retry probe to its address
\* was answered, reported with its stored hardware address whatever hardware
\* answered.
C18_OnlineSeenOrAnswered ==
    Handled =>
        \A r \in Records(OnlinePart) :
            \/ PairOf(r) \in Seen(devices)
            \/ /\ StateOf(CurFav) = NONE
               /\ result # <<>>
               /\ result[1][1] = Ip(CurFav)
               /\ PairOf(r) = PairOf(CurFav)

\* Recovered by a probe that other hardware answered.
C18_Witness ==
    /\ Handled
    /\ StateOf(CurFav) = NONE
    /\ result # <<>>
    /\ result[1][2] # Mac(CurFav)
    /\ OnlinePart = <<CurFav>>

\* The records of favs not named name, in their order: the j-th of them is
\* the record at the j-th smallest index that holds another name.
OtherPlaces(favs, name) == {k \in 1..Len(favs) : Name(favs[k]) # name}
Kth(S, j) == CHOOSE k \in S : Cardinality({m \in S : m < k}) = j - 1
Others(favs, name) ==
    [j \in 1..Cardinality(OtherPlaces(favs, name)) |->
        favs[Kth(OtherPlaces(favs, name), j)]]

Stored == load_favourites(_MAIN_LIST, data)
StoredBefore == load_favourites(_MAIN_LIST, data0)

\* C12: delete_favourite(name) on a document with k > 0 records named name
\* leaves none, keeps every other record in order and returns True; the same
\* call made again right away returns False, whatever else the document holds.
C12_Deletion ==
    call.op = "delete" =>
        /\ call.k > 0 =>
            /\ Count(Stored, call.name) = 0
            /\ Stored = Others(StoredBefore, call.name)
            /\ ret = "True"
        /\ call.again => ret = "False"

\* C13: after a successful save_favourite(name, ip, ...) the document holds
\* exactly one record named name, the new one, as its last element, and the
\* records with other names as before, in their order.
C13_SaveOverwrites ==
    (call.op = "save" /\ ret = "True") =>
        /\ Count(Stored, call.name) = 1
        /\ Stored # <<>>
        /\ Name(Stored[Len(Stored)]) = call.name
        /\ Ip(Stored[Len(Stored)]) = call.ip
        /\ Mac(Stored[Len(Stored)]) \in MACs
        /\ call.mac # "None" => Mac(Stored[Len(Stored)]) = call.mac
        /\ lastonline(Stored[Len(Stored)]) = call.t
        /\ SubSeq(Stored, 1, Len(Stored) - 1) = Others(StoredBefore, call.name)

\* The document held the name twice.
C13_Witness ==
    /\ call.op = "save"
    /\ ret = "True"
    /\ call.k = 2
    /\ call.t = 2
    /\ Count(Stored, call.name) = 1

\* C14: save_favourite without a hardware address, when none can be resolved
\* (the address is not in the snapshot given, or no snapshot is given and the
\* probe stays silent), returns its failure result and leaves the document
\* as it was.
C14_UnresolvedFails ==
    (call.op = "save" /\ call.mac = "None" /\ ~call.found) =>
        /\ ret = "False"
        /\ data = data0

\* ---- gateway check and command line
Answered(k) == probed[k][3] # <<>>

\* C15: test_all_gateways probes its candidates in list order, each at most
\* once and at its own address, and probes nothing after the first answer;
\* it returns the first candidate that answered, and None exactly when every
\* candidate was probed and none answered (always so on an empty list).
C15_FirstRespondingGateway ==
    gw_pc # "idle" =>
        /\ Len(probed) <= Len(gateways)
        /\ \A k \in 1..Len(probed) :
            /\ probed[k][1] = k
            /\ probed[k][2] = gateways[k]
            /\ Answered(k) => k = Len(probed)
        /\ gw_pc = "for" =>
            /\ g = Len(probed) + 1
            /\ \A k \in 1..Len(probed) : ~Answered(k)
        /\ gw_pc = "returned" =>
            IF \E k \in 1..Len(probed) : Answered(k)
            THEN gw_ret = gateways[Len(probed)]
            ELSE /\ gw_ret = "None"
                 /\ Len(probed) = Len(gateways)

\* The second candidate of two answers after the first stayed silent.
C15_Witness ==
    /\ gw_pc = "returned"
    /\ Len(gateways) = MaxGateways
    /\ Len(probed) = 2
    /\ ~Answered(1)
    /\ Answered(2)
    /\ gw_ret = gateways[2]

BackupAnswered ==
    \E k \in 1..Len(probed) :
        /\ probed[k][2] # _PREFERRED_GATEWAY
        /\ Answered(k)

NothingAnswered ==
    /\ primary = "down"
    /\ gw_pc = "returned"
    /\ \A k \in 1..Len(probed) : ~Answered(k)

\* C16: the script exits 1 exactly when the primary gateway failed and a
\* backup answered, and 2 exactly when no candidate answered; otherwise it
\* runs one reconcile pass.  Status 1 never comes without an answer from a
\* backup, and on status 1 or 2 no pass ran and the store was not written.
C16_ExitStatus ==
    main_pc = "exited" =>
        /\ status = 1 <=> (primary = "down" /\ BackupAnswered)
        /\ status = 2 <=> NothingAnswered
        /\ status \in {1, 2} => (pc = "idle" /\ writes = 0 /\ data = data0)
        /\ status \notin {1, 2} =>
            (primary = "up" /\ pc = "returned" /\ writes = 1)

\* ---- two passes in immediate succession
SecondOver == run = 2 /\ pc \in {"returned", "raised"}
NoConflict1 == \A k \in 1..Len(classified1) : classified1[k] # CONFLICT
Device(fav) == <<Name(fav), Ip(fav), Mac(fav)>>
DevicesOf(favs) == [k \in 1..Len(favs) |-> Device(favs[k])]

\* C11 as stated: with the same snapshot, the same retry outcomes and the
\* same now, the second pass yields the online set the first pass yielded.
C11_SameOnline ==
    (SecondOver /\ now = now1) => Records(online) = Records(online1)

\* C11: the second pass (same snapshot, same retry outcomes) ends as the
\* first did: both return or both abort.  When both abort they found the
\* same records online before aborting; when both return and the first
\* classified no favourite CONFLICT, their online lists name the same
\* devices in the same order (equal name, address and hardwareAddress;
\* lastSeen may differ).
C11_SameOnlineDevices ==
    SecondOver =>
        /\ ret = ret1
        /\ ret1 = "raised" => online = online1
        /\ (ret1 = "online" /\ NoConflict1) =>
               DevicesOf(online) = DevicesOf(online1)

\* Both passes report a device, with different lastSeen values.
C11_Witness ==
    /\ SecondOver
    /\ now = now1
    /\ ret1 = "online"
    /\ NoConflict1
    /\ Len(online) > 0
    /\ online # online1

\* Where favourite k of the first pass stands in the list that pass wrote.
Place1(k) == k + Cardinality({j \in 1..(k - 1) : classified1[j] = CONFLICT})

\* C19: the second pass on the document the first pass left (same snapshot,
\* same retry outcomes) classifies no favourite IP_MOVED or CONFLICT; the
\* trusted and the derived record of a conflict are both EXACT; it adds no
\* record and writes the names, addresses and hardwareAddresses of the
\* document it started from, in the same order.
C19_Converges ==
    run = 2 =>
        /\ pc # "raised"
        /\ \A k \in 1..Len(classified) : classified[k] \notin {IP_MOVED, CONFLICT}
        /\ \A k \in 1..Len(classified1) :
            (ret1 = "online" /\ classified1[k] = CONFLICT) =>
                /\ Place1(k) <= Len(classified) => classified[Place1(k)] = EXACT
                /\ Place1(k) + 1 <= Len(classified) =>
                       classified[Place1(k) + 1] = EXACT
        /\ pc = "returned" =>
            /\ Len(new_favourites) = Len(updated1)
            /\ DevicesOf(new_favourites) = DevicesOf(updated1)
            /\ load_favourites(_MAIN_LIST, data) = new_favourites

\* C19 where the first pass returned: the same convergence, given that the
\* first pass wrote its list.
C19_ConvergesAfterReturn ==
    ret1 = "online" => C19_Converges
====
